---- MODULE Spec2Model ----
(***************************************************************************)
(* way-cooler: the layout tree and the libraries around it.                *)
(*                                                                         *)
(*  - src/src/layout/containers.rs : the Container tree                    *)
(*    (Rc<RefCell<Container>> nodes, weak parent back-references);         *)
(*    specifications Spec, SpecAdd, SpecView, SpecQuery, SpecWalk,         *)
(*    SpecVisible.                                                         *)
(*  - src/src/layout/layout.rs : the Workspace Manager (ROOT and           *)
(*    CURRENT_WORKSPACE behind two mutexes, called from several threads);  *)
(*    specifications SpecWM, SpecLocks, SpecFocus.                         *)
(*  - src/src/registry/mod.rs : the registry; specification SpecRegistry.  *)
(*  - src/src/lua/thread.rs : the Lua thread and its callers;              *)
(*    specification SpecLua.                                               *)
(*  - src/src/layout/core/border/border.rs : calculate_stride;             *)
(*    specification SpecStride.                                            *)
(***************************************************************************)
EXTENDS Integers, Sequences, FiniteSets, TLC

(***************************************************************************)
(* Bounds of the model.                                                    *)
(***************************************************************************)
\* number of Container nodes ever allocated in one run of Spec
MaxNodes == 5
\* number of direct add_child / add_sibling calls of the client in one run
MaxAdds == 1
\* number of remove_container / remove_child / remove_child_at calls of the
\* client in one run
MaxRemoves == 1

Nodes == 1..MaxNodes
\* Option::None for a node reference
NoNode == 0

(***************************************************************************)
(* enum ContainerType, plus the two states of a slot of the node table     *)
(* that holds no live Container.                                           *)
(***************************************************************************)
Root == "Root"
Output == "Output"
Workspace == "Workspace"
Container == "Container"
View == "View"
ContainerType == {Root, Output, Workspace, Container, View}
\* slot never allocated
Unalloc == "Unalloc"
\* the Rc's strong count dropped to zero: the Container was destroyed
Dead == "Dead"

VARIABLES
    \* ---- containers.rs ----
    ctype,      \* Container.container_type of every node
    parent,     \* Container.parent: the target of the Weak, NoNode for None
    children,   \* Container.children: Vec<Node>
    held,       \* detached nodes kept alive by a strong reference of the client
    used        \* the public mutators called so far, besides the constructors:
                \* adds: number of add_child / add_sibling calls,
                \* removes: number of remove_container / remove_child /
                \* remove_child_at calls,
                \* refused: number of those that refused to remove a Root or
                \* a Workspace
VARIABLES
    call        \* the is_parent_of / is_child_of call of the client: where it
                \* is (pc), its receiver and its argument, the value it
                \* returned, and the parity of the passes of its loop
VARIABLES
    walk        \* the get_parent_by_type call of the client: its receiver,
                \* its argument and its outcome
VARIABLES
    focus       \* the get_focused_workspace call: the tree it is given (root)
                \* and what it returned
VARIABLES
    visible,    \* Container.visible of every node; every constructor sets
                \* it to false, the value of a slot never allocated
    is_focused  \* Container.is_focused of every node

VARIABLES
    \* ---- layout.rs ----
    ROOT,               \* the children of the root Node: the Outputs
    CURRENT_WORKSPACE,  \* u32
    mask,               \* the visibility mask of every view handle (WlcView)
    rootLock,           \* the thread that holds the guard of ROOT
    cwLock,             \* the thread that holds the guard of CURRENT_WORKSPACE
    poisoned,           \* the mutexes a panicking holder has poisoned
    pc,                 \* where every thread is in its current call
    local               \* the locals of that call

VARIABLES
    \* ---- registry/mod.rs ----
    REGISTRY,   \* the RegMap behind the RwLock: the RegistryValue of every key
    regLog      \* set: the flags and the value last passed to set for every
                \* key; call: the last get / contains_key call and its result

VARIABLES
    \* ---- lua/thread.rs ----
    SENDER,     \* Option<Sender<LuaMessage>> behind the Mutex
    RUNNING,    \* bool behind the RwLock
    channel,    \* the messages sent on the channel and not yet received
    luaThread,  \* init and the Lua thread: where they are, the message the
                \* thread handles, and the queries it has handled
    client      \* every caller of send: where its call is, the query, what
                \* send returned and the responses on its receiver

VARIABLES
    \* ---- layout/core/border/border.rs ----
    stride      \* the calculate_stride call: its width and what it returned

treeVars == <<ctype, parent, children, held, used, call, walk, focus, visible,
              is_focused>>
wmVars == <<ROOT, CURRENT_WORKSPACE, mask, rootLock, cwLock, poisoned, pc, local>>
registryVars == <<REGISTRY, regLog>>
luaVars == <<SENDER, RUNNING, channel, luaThread, client>>
\* the variables outside the layout tree
libVars == <<registryVars, luaVars, stride>>
vars == <<ctype, parent, children, held, used, call, walk, focus, visible,
          is_focused,
          ROOT, CURRENT_WORKSPACE, mask, rootLock, cwLock, poisoned, pc, local,
          REGISTRY, regLog, SENDER, RUNNING, channel, luaThread, client, stride>>

(***************************************************************************)
(* Reference counting: Node = Rc<RefCell<Container>>.                      *)
(***************************************************************************)
Alive(ct, n) == ct[n] \in ContainerType

\* n is an element of some children vector: a strong reference from the tree
Occurs(ch, n) == \E m \in Nodes : \E i \in 1..Len(ch[m]) : ch[m][i] = n

\* Dropping the last strong reference destroys the Container and with it its
\* children vector, which releases the children in turn.
RECURSIVE Release(_, _, _, _)
Release(ct, pa, ch, h) ==
    LET owned == UNION {{ch[m][i] : i \in 1..Len(ch[m])} : m \in Nodes}
        gone == {n \in Nodes : Alive(ct, n) /\ n \notin h /\ n \notin owned}
    IN  IF gone = {} THEN [ct |-> ct, pa |-> pa, ch |-> ch]
        ELSE Release([n \in Nodes |-> IF n \in gone THEN Dead ELSE ct[n]],
                     [n \in Nodes |-> IF n \in gone THEN NoNode ELSE pa[n]],
                     [n \in Nodes |-> IF n \in gone THEN <<>> ELSE ch[n]],
                     h)

\* the nodes destroyed when the client holds exactly h
Doomed(ct, pa, ch, h) ==
    LET rel == Release(ct, pa, ch, h)
    IN  {n \in Nodes : Alive(ct, n) /\ rel.ct[n] = Dead}

(***************************************************************************)
(* Container methods, as functions of the node table.                      *)
(***************************************************************************)
is_root(ct, n) == ct[n] = Root

\* get_parent that follows the parent reference without upgrading it
get_parent_unchecked(ct, pa, n) ==
    IF is_root(ct, n) THEN NoNode ELSE pa[n]

\* Weak::upgrade succeeds as long as the parent has not been destroyed
get_parent(ct, pa, n) ==
    IF is_root(ct, n) THEN NoNode
    ELSE IF pa[n] # NoNode /\ Alive(ct, pa[n]) THEN pa[n]
    ELSE NoNode

\* Option<&[Node]>: None for a View
get_children(ct, ch, self) ==
    IF ct[self] = View THEN [some |-> FALSE, slice |-> <<>>]
    ELSE [some |-> TRUE, slice |-> ch[self]]
\* add_child without the check of the receiver's type
add_child_to_any(ct, ch, self, container, borrowed) ==
    IF ct[self] = Workspace /\ container \in borrowed
        THEN [res |-> "Panic", ch |-> ch]
    ELSE IF ct[self] = Workspace /\ ct[container] = Workspace
        THEN [res |-> "Err", ch |-> ch]
    ELSE [res |-> "Ok", ch |-> [ch EXCEPT ![self] = Append(@, container)]]
\* borrowed: the nodes that are mutably borrowed while add_child runs;
\* container.borrow() on one of them panics (BorrowError)
add_child(ct, ch, self, container, borrowed) ==
    IF ct[self] = Workspace /\ container \in borrowed
        THEN [res |-> "Panic", ch |-> ch]
    ELSE IF ct[self] = Workspace /\ ct[container] = Workspace
        THEN [res |-> "Err", ch |-> ch]
    ELSE IF ct[self] = View
        THEN [res |-> "Err", ch |-> ch]
    ELSE [res |-> "Ok", ch |-> [ch EXCEPT ![self] = Append(@, container)]]

add_sibling(ct, pa, ch, self, container) ==
    IF is_root(ct, self) THEN [res |-> "Err", ch |-> ch]
    ELSE LET p == get_parent(ct, pa, self) IN
         IF p = NoNode \/ p = self THEN [res |-> "Panic", ch |-> ch]
         ELSE LET r == add_child(ct, ch, p, container, {self, p}) IN
              IF r.res = "Panic" THEN r
              ELSE [res |-> "Ok", ch |-> r.ch]

\* index (1-based) of the first child that remove_child's loop stops at: the
\* first one equal to node under PartialEq (same type), 0 when there is none
RECURSIVE FirstEq(_, _, _, _)
FirstEq(ct, seq, node, i) ==
    IF i > Len(seq) THEN 0
    ELSE IF ct[seq[i]] = ct[node] THEN i
    ELSE FirstEq(ct, seq, node, i + 1)

Elems(seq) == {seq[i] : i \in 1..Len(seq)}

RemoveAt(seq, i) == SubSeq(seq, 1, i - 1) \o SubSeq(seq, i + 1, Len(seq))

\* remove_child that searches for the node itself, by reference identity
remove_child_by_identity(ct, ch, self, node) ==
    IF self \in Elems(ch[self])
        THEN [res |-> "Panic", ch |-> ch, node |-> NoNode, refused |-> FALSE]
    ELSE IF node \notin Elems(ch[self])
        THEN [res |-> "Err", ch |-> ch, node |-> NoNode, refused |-> FALSE]
    ELSE IF ct[node] = Workspace
        THEN [res |-> "Err", ch |-> ch, node |-> NoNode, refused |-> TRUE]
    ELSE [res |-> "Ok", ch |-> [ch EXCEPT ![self] =
                          RemoveAt(@, CHOOSE i \in 1..Len(ch[self]) : ch[self][i] = node)],
          node |-> node, refused |-> FALSE]
\* self is mutably borrowed by the caller: child.borrow() panics on self.
\* refused: the Err is a refusal to remove a Root or a Workspace.
remove_child(ct, ch, self, node) ==
    LET k == FirstEq(ct, ch[self], node, 1)
        visited == IF k = 0 THEN Len(ch[self]) ELSE k
    IN  IF \E i \in 1..visited : ch[self][i] = self
            THEN [res |-> "Panic", ch |-> ch, node |-> NoNode, refused |-> FALSE]
        ELSE IF k = 0
            THEN [res |-> "Err", ch |-> ch, node |-> NoNode, refused |-> FALSE]
        ELSE IF ct[ch[self][k]] = Workspace
            THEN [res |-> "Err", ch |-> ch, node |-> NoNode, refused |-> TRUE]
        ELSE [res |-> "Ok", ch |-> [ch EXCEPT ![self] = RemoveAt(@, k)],
              node |-> ch[self][k], refused |-> FALSE]

\* remove_child_at without the Workspace check
remove_child_at_any(ct, ch, self, index) ==
    IF index >= Len(ch[self]) \/ ch[self][index + 1] = self
        THEN [res |-> "Panic", ch |-> ch, node |-> NoNode, refused |-> FALSE]
    ELSE [res |-> "Ok", ch |-> [ch EXCEPT ![self] = RemoveAt(@, index + 1)],
          node |-> ch[self][index + 1], refused |-> FALSE]

\* index is the 0-based usize of the source
remove_child_at(ct, ch, self, index) ==
    IF index >= Len(ch[self]) \/ ch[self][index + 1] = self
        THEN [res |-> "Panic", ch |-> ch, node |-> NoNode, refused |-> FALSE]
    ELSE IF ct[ch[self][index + 1]] = Workspace
        THEN [res |-> "Err", ch |-> ch, node |-> NoNode, refused |-> TRUE]
    ELSE [res |-> "Ok", ch |-> [ch EXCEPT ![self] = RemoveAt(@, index + 1)],
          node |-> ch[self][index + 1], refused |-> FALSE]

remove_container(ct, pa, ch, self) ==
    IF is_root(ct, self) THEN [res |-> "Err", ch |-> ch, refused |-> TRUE]
    ELSE IF ct[self] = Workspace THEN [res |-> "Err", ch |-> ch, refused |-> TRUE]
    ELSE LET p == get_parent(ct, pa, self) IN
         IF p = NoNode THEN [res |-> "Ok", ch |-> ch, refused |-> FALSE]
         ELSE LET r == remove_child(ct, ch, p, self) IN
              IF r.res = "Panic" THEN [res |-> "Panic", ch |-> ch, refused |-> FALSE]
              ELSE [res |-> "Ok", ch |-> r.ch, refused |-> FALSE]

\* The loop of get_parent_by_type, line 367-376, from the pass that finds
\* container in its local: Some(parent) of the type asked for is returned,
\* any other is replaced by its own parent, and None is returned.  seen: the
\* values the local had in the earlier passes; the local is all the loop
\* goes by, so a pass that finds one of them again is the start of a loop
\* without end.
RECURSIVE get_parent_by_type_loop(_, _, _, _, _)
get_parent_by_type_loop(ct, pa, container_type, container, seen) ==
    IF container = NoNode THEN [res |-> "Returns", node |-> NoNode]
    ELSE IF ct[container] = container_type THEN [res |-> "Returns", node |-> container]
    ELSE IF container \in seen THEN [res |-> "Loops", node |-> NoNode]
    ELSE get_parent_by_type_loop(ct, pa, container_type,
                                 get_parent(ct, pa, container), seen \cup {container})

\* get_parent_by_type that starts its walk at the receiver
get_parent_by_type_from_self(ct, pa, self, container_type) ==
    get_parent_by_type_loop(ct, pa, container_type, self, {})

\* line 366: the walk starts at the parent of the receiver
get_parent_by_type(ct, pa, self, container_type) ==
    get_parent_by_type_loop(ct, pa, container_type, get_parent(ct, pa, self), {})

\* line 297-299: self.visible = visibility
set_visibility(vis, self, visibility) == [vis EXCEPT ![self] = visibility]

\* line 302-304
get_visibility(vis, self) == vis[self]
\* The constructors: view / container / ... is the slot of the new node, whose
\* type and parent reference are already entered in ct and pa.
new_output(ct, ch, root, output) ==
    IF ~is_root(ct, root) THEN [res |-> "Panic", ch |-> ch]
    ELSE [res |-> "Ok", ch |-> add_child(ct, ch, root, output, {root}).ch]

new_workspace(ct, ch, parent_, workspace) ==
    IF ct[parent_] # Output THEN [res |-> "Panic", ch |-> ch]
    ELSE [res |-> "Ok", ch |-> add_child(ct, ch, parent_, workspace, {parent_}).ch]

new_container(ct, ch, parent_, container) ==
    IF ~(ct[parent_] = Container \/ ct[parent_] = Workspace)
        THEN [res |-> "Panic", ch |-> ch]
    ELSE [res |-> "Ok", ch |-> add_child(ct, ch, parent_, container, {parent_}).ch]

\* new_view without the sibling case: the View always becomes a child of
\* parent_ itself
new_view_nested(ct, pa, ch, parent_, view) ==
    IF is_root(ct, parent_) THEN [res |-> "Panic", ch |-> ch]
    ELSE [res |-> "Ok", ch |-> add_child(ct, ch, parent_, view, {parent_}).ch]

new_view(ct, pa, ch, parent_, view) ==
    IF is_root(ct, parent_) THEN [res |-> "Panic", ch |-> ch]
    ELSE IF ct[parent_] = Workspace
        THEN [res |-> "Ok", ch |-> add_child(ct, ch, parent_, view, {parent_}).ch]
    ELSE LET r == add_sibling(ct, pa, ch, parent_, view) IN
         IF r.res = "Panic" THEN r ELSE [res |-> "Ok", ch |-> r.ch]


(***************************************************************************)
(* The calls of a client of the Container API.  A call runs on any live    *)
(* node: the client may hold a handle to every node it has created, and a  *)
(* handle to a node that the tree owns changes nothing until the node is   *)
(* detached.  At that moment the client either holds a handle, and then    *)
(* keeps it for the rest of the run (the node stays in held), or does not  *)
(* (the node is destroyed).                                                *)
(***************************************************************************)
\* no is_parent_of / is_child_of call was made
NoCall == [pc |-> "idle", op |-> "none", self |-> NoNode, child |-> NoNode,
           result |-> "none", iter |-> 0]

\* no get_parent_by_type call was made
NoWalk == [self |-> NoNode, container_type |-> "none", res |-> "none", node |-> NoNode]

Added == [used EXCEPT !.adds = @ + 1]
Removed(r) == [used EXCEPT !.removes = @ + 1,
                           !.refused = IF r.refused THEN @ + 1 ELSE @]

Live == {n \in Nodes : Alive(ctype, n)}

HasFree == \E n \in Nodes : ctype[n] = Unalloc
\* the slot of the next allocation
NewId == CHOOSE n \in Nodes : ctype[n] = Unalloc /\ \A m \in Nodes : ctype[m] = Unalloc => n <= m

\* a constructor for type t that marks the Outputs and the Workspaces it
\* makes focused
new_is_focused_outputs(t) == t \in {Output, Workspace}

\* line 74, 97, 122, 149, 170: is_focused of the Container that the
\* constructor for type t makes
new_is_focused(t) == FALSE

\* End of a call: the returned and the temporary handles go out of scope.
\* h: the handles the client certainly holds, K: the handles it kept to nodes
\* that the tree no longer owns.  The client builds and edits the tree first
\* and queries it afterwards.  ct holds the type of a node that a constructor
\* has allocated in the call: the node carries the is_focused of its
\* constructor.
Finish(ct, pa, ch, h, u) ==
    /\ call = NoCall
    /\ walk = NoWalk
    /\ UNCHANGED <<call, walk, focus, visible>>
    /\ \E K \in SUBSET Doomed(ct, pa, ch, h) :
         LET rel == Release(ct, pa, ch, h \cup K) IN
         /\ ctype' = rel.ct
         /\ parent' = rel.pa
         /\ children' = rel.ch
         /\ held' = {n \in h \cup K : ~Occurs(rel.ch, n)}
    /\ used' = u
    /\ is_focused' = [n \in Nodes |->
            IF ctype[n] = Unalloc /\ ct[n] # Unalloc THEN new_is_focused(ct[n])
            ELSE is_focused[n]]
    /\ UNCHANGED <<wmVars, libVars>>

\* Allocation of a node: its type and its parent reference are entered in the
\* slot NewId.
Alloc(t) == [ctype EXCEPT ![NewId] = t]
Downgrade(p) == [parent EXCEPT ![NewId] = p]

\* A constructor call for type t with parent reference p; out is the result of
\* the constructor body on the extended table.  A constructor that panics
\* leaves the tree as it was.
Construct(t, p, out) ==
    /\ HasFree
    /\ IF out.res = "Panic" THEN UNCHANGED vars
       ELSE Finish(Alloc(t), Downgrade(p), out.ch, held \cup {NewId}, used)

\* "There should be only one of these": the client creates one Root.
NewRoot ==
    /\ \A n \in Nodes : ctype[n] # Root
    /\ Construct(Root, NoNode, [res |-> "Ok", ch |-> children])

NewOutput(root) ==
    Construct(Output, root, new_output(Alloc(Output), children, root, NewId))

NewWorkspace(parent_) ==
    Construct(Workspace, parent_,
              new_workspace(Alloc(Workspace), children, parent_, NewId))

NewContainer(parent_) ==
    Construct(Container, parent_,
              new_container(Alloc(Container), children, parent_, NewId))

NewView(parent_) ==
    Construct(View, parent_,
              new_view(Alloc(View), Downgrade(parent_), children, parent_, NewId))

\* self.borrow_mut().add_child(container)
AddChild(self, container) ==
    /\ used.adds < MaxAdds
    /\ LET r == add_child(ctype, children, self, container, {self}) IN
       Finish(ctype, parent, r.ch, held, Added)

\* self.borrow_mut().add_sibling(container)
AddSibling(self, container) ==
    /\ used.adds < MaxAdds
    /\ LET r == add_sibling(ctype, parent, children, self, container) IN
       Finish(ctype, parent, r.ch, held, Added)

\* self.borrow().remove_container()
RemoveContainer(self) ==
    /\ used.removes < MaxRemoves
    /\ LET r == remove_container(ctype, parent, children, self) IN
       Finish(ctype, parent, r.ch, held, Removed(r))

\* self.borrow_mut().remove_child(&*node.borrow()): borrowing node panics
\* when node is self
RemoveChildCall(self, node) ==
    IF node = self
        THEN [res |-> "Panic", ch |-> children, node |-> NoNode, refused |-> FALSE]
    ELSE remove_child(ctype, children, self, node)

RemoveChild(self, node) ==
    /\ used.removes < MaxRemoves
    /\ LET r == RemoveChildCall(self, node) IN
       Finish(ctype, parent, r.ch, held, Removed(r))

\* self.borrow_mut().remove_child_at(index)
RemoveChildAt(self, index) ==
    /\ used.removes < MaxRemoves
    /\ LET r == remove_child_at(ctype, children, self, index) IN
       Finish(ctype, parent, r.ch, held, Removed(r))

(***************************************************************************)
(* The ancestry queries.  is_parent_of runs its while loop one pass per     *)
(* step; the client is single-threaded (Rc), so nothing else runs before   *)
(* the call returns.                                                       *)
(***************************************************************************)

Returned(op, self, child, result) ==
    [pc |-> "idle", op |-> op, self |-> self, child |-> child,
     result |-> result, iter |-> 0]

\* line 342-344: a Root receiver answers true, any other enters the loop
Enter(op, self, child) ==
    /\ call.pc = "idle"
    /\ call' = IF is_root(ctype, self) THEN Returned(op, self, child, "true")
               ELSE [pc |-> "while", op |-> op, self |-> self, child |-> child,
                     result |-> "none", iter |-> 0]
    /\ UNCHANGED <<ctype, parent, children, held, used, walk, focus, visible, is_focused>>
    /\ UNCHANGED <<wmVars, libVars>>

\* self.borrow().is_parent_of(child)
is_parent_of(self, child) == Enter("is_parent_of", self, child)

\* self.borrow().is_child_of(parent_): is_parent_of on parent_ with a clone
\* of self, which has the type and the parent reference of self
is_child_of(self, parent_) == Enter("is_child_of", parent_, self)

\* one pass of the loop, line 345-351: child is never reassigned, and
\* child == parent compares the two Containers with PartialEq, by type;
\* "again" when the pass ends at the loop test once more
is_parent_of_pass(ct, pa, child) ==
    LET p == get_parent(ct, pa, child)
    IN  IF is_root(ct, child) THEN "false"
        ELSE IF p = NoNode THEN "panic"
        ELSE IF ct[child] = ct[p] THEN "true"
        ELSE "again"

is_parent_of_while ==
    /\ call.pc = "while"
    /\ LET out == is_parent_of_pass(ctype, parent, call.child)
       IN  call' = IF out = "again" THEN [call EXCEPT !.iter = 1 - @]
                   ELSE Returned(call.op, call.self, call.child, out)
    /\ UNCHANGED <<ctype, parent, children, held, used, walk, focus, visible, is_focused>>
    /\ UNCHANGED <<wmVars, libVars>>

\* self.borrow().get_parent_by_type(container_type): the call and what it
\* returned; the client asks once the tree is built
GetParentByType(self, container_type) ==
    /\ walk = NoWalk
    /\ call = NoCall
    /\ LET r == get_parent_by_type(ctype, parent, self, container_type)
       IN  walk' = [self |-> self, container_type |-> container_type,
                    res |-> r.res, node |-> r.node]
    /\ UNCHANGED <<ctype, parent, children, held, used, call, focus, visible, is_focused>>
    /\ UNCHANGED <<wmVars, libVars>>

\* self.borrow_mut().set_visibility(visibility)
SetVisibility(self, visibility) ==
    /\ call = NoCall
    /\ walk = NoWalk
    /\ visible' = set_visibility(visible, self, visibility)
    /\ UNCHANGED <<ctype, parent, children, held, used, call, walk, focus, is_focused>>
    /\ UNCHANGED <<wmVars, libVars>>

(***************************************************************************)
(* The Workspace Manager of layout.rs.  Its tree is ROOT -> Outputs ->      *)
(* Workspaces -> Views: an Output is [handle, children], a Workspace is    *)
(* [name, children] and a View is its WlcView handle.                      *)
(***************************************************************************)
\* the threads that call into the Workspace Manager
Threads == {"t1", "t2"}
NoThread == "none"
\* the WlcView handles of the compositor
Views == {"A", "B"}
\* the WlcOutput handles of the compositor
Outputs == {"o1", "o2"}
NoArg == "none"
\* number of Workspaces created in one run of SpecWM
MaxWorkspaces == 4
\* the indices passed to switch_workspace: those of the two Workspaces of an
\* Output, and one that names a Workspace only after a further add_workspace
Indices == {0, 1, 2}

NoMask == [v \in Views |-> 0]
\* before: the masks as they were when a switch_workspace call began
NoLocal == [op |-> "none", arg |-> NoArg, count |-> 0, todo |-> 0, before |-> NoMask]

\* Node::new_child: the new child goes last
new_child(seq, child) == Append(seq, child)

\* Node::find_view_by_handle: the places <<output, workspace, view>> of the
\* Views with the handle
find_view_by_handle(r, v) ==
    {e \in (1..Len(r)) \X (1..MaxWorkspaces) \X (1..Cardinality(Views)) :
        /\ e[2] <= Len(r[e[1]].children)
        /\ e[3] <= Len(r[e[1]].children[e[2]].children)
        /\ r[e[1]].children[e[2]].children[e[3]] = v}

\* view.get_parent().unwrap().remove_child(view) for the View found at place
\* e: remove_child takes out the first child that equals the View under
\* PartialEq, by type, and every child of a Workspace of this tree is a View
remove_view_at(r, e) ==
    [r EXCEPT ![e[1]].children[e[2]].children = RemoveAt(@, 1)]

\* the Views of Workspace index i (0-based) of the first Output
ViewsOf(r, i) == Elems(r[1].children[i + 1].children)
HasWorkspace(r, i) == r # <<>> /\ i < Len(r[1].children)

WorkspaceCount == LET n == [o \in 1..Len(ROOT) |-> Len(ROOT[o].children)]
                      sum[k \in 0..Len(ROOT)] == IF k = 0 THEN 0 ELSE sum[k - 1] + n[k]
                  IN  sum[Len(ROOT)]
\* add_workspace calls that running add_output / add_workspace calls still make
Pending == LET T == Threads
               RECURSIVE Sum(_)
               Sum(S) == IF S = {} THEN 0
                         ELSE LET t == CHOOSE x \in S : TRUE IN local[t].todo + Sum(S \ {t})
           IN  Sum(T)

\* A panic of thread t: the guards it holds are dropped while it unwinds, which
\* poisons their mutexes; temp is the mutex of a temporary guard of the
\* panicking statement.  The thread is gone.
Panic(t, temp) ==
    /\ pc' = [pc EXCEPT ![t] = "panicked"]
    /\ local' = [local EXCEPT ![t] = NoLocal]
    /\ poisoned' = poisoned \cup temp
                       \cup (IF rootLock = t THEN {"ROOT"} ELSE {})
                       \cup (IF cwLock = t THEN {"CURRENT_WORKSPACE"} ELSE {})
    /\ rootLock' = IF rootLock = t THEN NoThread ELSE rootLock
    /\ cwLock' = IF cwLock = t THEN NoThread ELSE cwLock

Return(t) ==
    /\ pc' = [pc EXCEPT ![t] = "idle"]
    /\ local' = [local EXCEPT ![t] = NoLocal]

\* add_output, line 20-21: the Output goes under the root, in one statement
\* that locks and unlocks ROOT; two add_workspace calls follow
add_output(t, wlc_output) ==
    /\ pc[t] = "idle"
    /\ \A o \in 1..Len(ROOT) : ROOT[o].handle # wlc_output
    /\ WorkspaceCount + Pending + 2 <= MaxWorkspaces
    /\ rootLock = NoThread
    /\ IF "ROOT" \in poisoned
       THEN /\ Panic(t, {})
            /\ UNCHANGED <<ROOT, CURRENT_WORKSPACE, mask>>
       ELSE /\ ROOT' = new_child(ROOT, [handle |-> wlc_output, children |-> <<>>])
            /\ pc' = [pc EXCEPT ![t] = "aw_count"]
            /\ local' = [local EXCEPT ![t] =
                    [op |-> "add_output", arg |-> wlc_output, count |-> 0, todo |-> 2,
                     before |-> NoMask]]
            /\ UNCHANGED <<CURRENT_WORKSPACE, mask, rootLock, cwLock, poisoned>>
    /\ UNCHANGED <<treeVars, libVars>>

\* add_workspace, line 27: the count is read under a lock of its own; the
\* call is either a public one (the thread is idle) or one of add_output's
add_workspace_count(t) ==
    /\ pc[t] \in {"idle", "aw_count"}
    /\ pc[t] = "idle" => WorkspaceCount + Pending + 1 <= MaxWorkspaces
    /\ rootLock = NoThread
    /\ IF "ROOT" \in poisoned
       THEN Panic(t, {})
       ELSE /\ pc' = [pc EXCEPT ![t] = "aw_insert"]
            /\ local' = [local EXCEPT ![t] =
                    IF pc[t] = "idle"
                    THEN [op |-> "add_workspace", arg |-> NoArg, count |-> Len(ROOT), todo |-> 1,
                     before |-> NoMask]
                    ELSE [@ EXCEPT !.count = Len(ROOT)]]
            /\ UNCHANGED <<rootLock, cwLock, poisoned>>
    /\ UNCHANGED <<ROOT, CURRENT_WORKSPACE, mask>>
    /\ UNCHANGED <<treeVars, libVars>>

\* add_workspace, line 28-29: the Workspace goes under get_children_mut()[0]
add_workspace_insert(t) ==
    /\ pc[t] = "aw_insert"
    /\ rootLock = NoThread
    /\ IF "ROOT" \in poisoned
       THEN /\ Panic(t, {})
            /\ UNCHANGED ROOT
       ELSE IF ROOT = <<>>
       THEN /\ Panic(t, {"ROOT"})
            /\ UNCHANGED ROOT
       ELSE /\ ROOT' = [ROOT EXCEPT ![1].children =
                    new_child(@, [name |-> local[t].count + 1, children |-> <<>>])]
            /\ IF local[t].todo > 1
               THEN /\ pc' = [pc EXCEPT ![t] = "aw_count"]
                    /\ local' = [local EXCEPT ![t].todo = @ - 1]
               ELSE Return(t)
            /\ UNCHANGED <<rootLock, cwLock, poisoned>>
    /\ UNCHANGED <<CURRENT_WORKSPACE, mask>>
    /\ UNCHANGED <<treeVars, libVars>>

\* add_view, line 33.  The compositor announces every view once: the handle
\* is not in the tree, and its mask is the compositor's initial 0.
add_view_lock_current(t, wlc_view) ==
    /\ pc[t] = "idle"
    /\ find_view_by_handle(ROOT, wlc_view) = {}
    /\ \A u \in Threads : ~(local[u].op = "add_view" /\ local[u].arg = wlc_view)
    /\ cwLock = NoThread
    /\ IF "CURRENT_WORKSPACE" \in poisoned
       THEN /\ Panic(t, {})
            /\ UNCHANGED mask
       ELSE /\ cwLock' = t
            /\ pc' = [pc EXCEPT ![t] = "av_root"]
            /\ local' = [local EXCEPT ![t] =
                    [op |-> "add_view", arg |-> wlc_view, count |-> 0, todo |-> 0,
                     before |-> NoMask]]
            /\ mask' = [mask EXCEPT ![wlc_view] = 0]
            /\ UNCHANGED <<rootLock, poisoned>>
    /\ UNCHANGED <<ROOT, CURRENT_WORKSPACE>>
    /\ UNCHANGED <<treeVars, libVars>>

\* add_view that puts the View under Workspace 0 whatever the active index is
add_view_first_workspace(t) ==
    /\ pc[t] = "av_root"
    /\ rootLock = NoThread
    /\ IF "ROOT" \in poisoned \/ ~HasWorkspace(ROOT, CURRENT_WORKSPACE)
       THEN /\ Panic(t, IF "ROOT" \in poisoned THEN {} ELSE {"ROOT"})
            /\ UNCHANGED ROOT
       ELSE /\ ROOT' = [ROOT EXCEPT ![1].children[1].children =
                    new_child(@, local[t].arg)]
            /\ Return(t)
            /\ cwLock' = NoThread
            /\ UNCHANGED <<rootLock, poisoned>>
    /\ UNCHANGED <<CURRENT_WORKSPACE, mask>>
    /\ UNCHANGED <<treeVars, libVars>>
\* add_view, line 34-37: with the guard of ROOT too, the View goes last under
\* the current Workspace of the first Output; both guards are dropped on
\* return
add_view(t) ==
    /\ pc[t] = "av_root"
    /\ rootLock = NoThread
    /\ IF "ROOT" \in poisoned \/ ~HasWorkspace(ROOT, CURRENT_WORKSPACE)
       THEN /\ Panic(t, IF "ROOT" \in poisoned THEN {} ELSE {"ROOT"})
            /\ UNCHANGED ROOT
       ELSE /\ ROOT' = [ROOT EXCEPT ![1].children[CURRENT_WORKSPACE + 1].children =
                    new_child(@, local[t].arg)]
            /\ Return(t)
            /\ cwLock' = NoThread
            /\ UNCHANGED <<rootLock, poisoned>>
    /\ UNCHANGED <<CURRENT_WORKSPACE, mask>>
    /\ UNCHANGED <<treeVars, libVars>>

\* remove_view, line 39-45, under one guard of ROOT
remove_view(t, wlc_view) ==
    /\ pc[t] = "idle"
    /\ rootLock = NoThread
    /\ IF "ROOT" \in poisoned
       THEN /\ Panic(t, {})
            /\ UNCHANGED ROOT
       ELSE /\ LET found == find_view_by_handle(ROOT, wlc_view) IN
               IF found = {} THEN UNCHANGED ROOT
               ELSE ROOT' = remove_view_at(ROOT, CHOOSE e \in found : TRUE)
            /\ UNCHANGED <<pc, local, rootLock, cwLock, poisoned>>
    /\ UNCHANGED <<CURRENT_WORKSPACE, mask>>
    /\ UNCHANGED <<treeVars, libVars>>

\* switch_workspace that takes the guard of ROOT first
switch_workspace_lock_root(t, index) ==
    /\ pc[t] = "idle"
    /\ rootLock = NoThread
    /\ IF "ROOT" \in poisoned
       THEN Panic(t, {})
       ELSE /\ rootLock' = t
            /\ pc' = [pc EXCEPT ![t] = "sw_root"]
            /\ local' = [local EXCEPT ![t] =
                    [op |-> "switch_workspace", arg |-> index, count |-> 0, todo |-> 0,
                     before |-> mask]]
            /\ UNCHANGED <<cwLock, poisoned>>
    /\ UNCHANGED <<ROOT, CURRENT_WORKSPACE, mask>>
    /\ UNCHANGED <<treeVars, libVars>>

\* switch_workspace, line 48
switch_workspace_lock_current(t, index) ==
    /\ pc[t] = "idle"
    /\ cwLock = NoThread
    /\ IF "CURRENT_WORKSPACE" \in poisoned
       THEN Panic(t, {})
       ELSE /\ cwLock' = t
            /\ pc' = [pc EXCEPT ![t] = "sw_root"]
            /\ local' = [local EXCEPT ![t] =
                    [op |-> "switch_workspace", arg |-> index, count |-> 0, todo |-> 0,
                     before |-> mask]]
            /\ UNCHANGED <<rootLock, poisoned>>
    /\ UNCHANGED <<ROOT, CURRENT_WORKSPACE, mask>>
    /\ UNCHANGED <<treeVars, libVars>>

\* switch_workspace that leaves the masks of the old Workspace alone
switch_workspace_hide_nothing(t) ==
    /\ pc[t] = "sw_root"
    /\ rootLock = NoThread
    /\ IF "ROOT" \in poisoned \/ ~HasWorkspace(ROOT, CURRENT_WORKSPACE)
       THEN Panic(t, IF "ROOT" \in poisoned THEN {} ELSE {"ROOT"})
       ELSE /\ rootLock' = t
            /\ pc' = [pc EXCEPT ![t] = "sw_show"]
            /\ UNCHANGED <<cwLock, poisoned, local>>
    /\ UNCHANGED <<ROOT, CURRENT_WORKSPACE, mask>>
    /\ UNCHANGED <<treeVars, libVars>>

\* switch_workspace that drops the guard of ROOT once the old Workspace is
\* hidden
switch_workspace_hide_unlocked(t) ==
    /\ pc[t] = "sw_root"
    /\ rootLock = NoThread
    /\ IF "ROOT" \in poisoned \/ ~HasWorkspace(ROOT, CURRENT_WORKSPACE)
       THEN /\ Panic(t, IF "ROOT" \in poisoned THEN {} ELSE {"ROOT"})
            /\ UNCHANGED mask
       ELSE /\ mask' = [v \in Views |->
                    IF v \in ViewsOf(ROOT, CURRENT_WORKSPACE) THEN 0 ELSE mask[v]]
            /\ pc' = [pc EXCEPT ![t] = "sw_show"]
            /\ UNCHANGED <<rootLock, cwLock, poisoned, local>>
    /\ UNCHANGED <<ROOT, CURRENT_WORKSPACE>>
    /\ UNCHANGED <<treeVars, libVars>>

\* switch_workspace that hides the Views of Workspace 0 whatever the active
\* index is
switch_workspace_hide_first(t) ==
    /\ pc[t] = "sw_root"
    /\ rootLock = NoThread
    /\ IF "ROOT" \in poisoned \/ ~HasWorkspace(ROOT, CURRENT_WORKSPACE)
       THEN /\ Panic(t, IF "ROOT" \in poisoned THEN {} ELSE {"ROOT"})
            /\ UNCHANGED mask
       ELSE /\ mask' = [v \in Views |->
                    IF v \in ViewsOf(ROOT, 0) THEN 0 ELSE mask[v]]
            /\ rootLock' = t
            /\ pc' = [pc EXCEPT ![t] = "sw_show"]
            /\ UNCHANGED <<cwLock, poisoned, local>>
    /\ UNCHANGED <<ROOT, CURRENT_WORKSPACE>>
    /\ UNCHANGED <<treeVars, libVars>>
\* switch_workspace, line 49-60: with the guard of ROOT too, the Views of
\* the old Workspace get mask 0
switch_workspace_hide(t) ==
    /\ pc[t] = "sw_root"
    /\ rootLock = NoThread
    /\ IF "ROOT" \in poisoned \/ ~HasWorkspace(ROOT, CURRENT_WORKSPACE)
       THEN /\ Panic(t, IF "ROOT" \in poisoned THEN {} ELSE {"ROOT"})
            /\ UNCHANGED mask
       ELSE /\ mask' = [v \in Views |->
                    IF v \in ViewsOf(ROOT, CURRENT_WORKSPACE) THEN 0 ELSE mask[v]]
            /\ rootLock' = t
            /\ pc' = [pc EXCEPT ![t] = "sw_show"]
            /\ UNCHANGED <<cwLock, poisoned, local>>
    /\ UNCHANGED <<ROOT, CURRENT_WORKSPACE>>
    /\ UNCHANGED <<treeVars, libVars>>

\* switch_workspace that leaves the masks of the new Workspace alone
switch_workspace_show_nothing(t) ==
    /\ pc[t] = "sw_show"
    /\ IF ~HasWorkspace(ROOT, local[t].arg)
       THEN Panic(t, {})
       ELSE /\ pc' = [pc EXCEPT ![t] = "sw_index"]
            /\ UNCHANGED <<rootLock, cwLock, poisoned, local>>
    /\ UNCHANGED <<ROOT, CURRENT_WORKSPACE, mask>>
    /\ UNCHANGED <<treeVars, libVars>>

\* switch_workspace that goes on to write the index when the target
\* Workspace does not exist
switch_workspace_show_unresolved(t) ==
    /\ pc[t] = "sw_show"
    /\ mask' = [v \in Views |->
            IF HasWorkspace(ROOT, local[t].arg) /\ v \in ViewsOf(ROOT, local[t].arg)
            THEN 1 ELSE mask[v]]
    /\ pc' = [pc EXCEPT ![t] = "sw_index"]
    /\ UNCHANGED <<rootLock, cwLock, poisoned, local>>
    /\ UNCHANGED <<ROOT, CURRENT_WORKSPACE>>
    /\ UNCHANGED <<treeVars, libVars>>
\* switch_workspace, line 63-70: the Views of the new Workspace get mask 1
switch_workspace_show(t) ==
    /\ pc[t] = "sw_show"
    /\ IF ~HasWorkspace(ROOT, local[t].arg)
       THEN /\ Panic(t, {})
            /\ UNCHANGED mask
       ELSE /\ mask' = [v \in Views |->
                    IF v \in ViewsOf(ROOT, local[t].arg) THEN 1 ELSE mask[v]]
            /\ pc' = [pc EXCEPT ![t] = "sw_index"]
            /\ UNCHANGED <<rootLock, cwLock, poisoned, local>>
    /\ UNCHANGED <<ROOT, CURRENT_WORKSPACE>>
    /\ UNCHANGED <<treeVars, libVars>>

\* switch_workspace that returns with the guard of ROOT still held
switch_workspace_keeps_root(t) ==
    /\ pc[t] = "sw_index"
    /\ CURRENT_WORKSPACE' = local[t].arg
    /\ Return(t)
    /\ cwLock' = NoThread
    /\ UNCHANGED <<ROOT, mask, poisoned, rootLock>>
    /\ UNCHANGED <<treeVars, libVars>>
\* switch_workspace, line 71-72: the index is written and both guards are
\* dropped on return
switch_workspace(t) ==
    /\ pc[t] = "sw_index"
    /\ CURRENT_WORKSPACE' = local[t].arg
    /\ Return(t)
    /\ rootLock' = NoThread
    /\ cwLock' = NoThread
    /\ UNCHANGED <<ROOT, mask, poisoned>>
    /\ UNCHANGED <<treeVars, libVars>>

\* the Container table before the first call
InitContainers ==
    /\ ctype = [n \in Nodes |-> Unalloc]
    /\ parent = [n \in Nodes |-> NoNode]
    /\ children = [n \in Nodes |-> <<>>]
    /\ held = {}
    /\ used = [adds |-> 0, removes |-> 0, refused |-> 0]
    /\ call = NoCall
    /\ walk = NoWalk
    /\ visible = [n \in Nodes |-> FALSE]
    /\ is_focused = [n \in Nodes |-> FALSE]

(***************************************************************************)
(* get_focused_workspace of layout.rs, a function of the tree it is given: *)
(* an Output is [is_focused, children] and a Workspace is [is_focused].    *)
(***************************************************************************)
\* number of Outputs of a tree given to get_focused_workspace
MaxFocusOutputs == 2
\* number of Workspaces of an Output of such a tree
MaxFocusWorkspaces == 2

\* the sequences over S of length up to n
SeqUpTo(S, n) == UNION {[1..k -> S] : k \in 0..n}

FocusWorkspace == [is_focused : BOOLEAN]
FocusOutput == [is_focused : BOOLEAN, children : SeqUpTo(FocusWorkspace, MaxFocusWorkspaces)]
FocusRoots == SeqUpTo(FocusOutput, MaxFocusOutputs)

\* Option<&Node>: None, or Some of the Workspace at place <<output, workspace>>
None == [some |-> FALSE, at |-> <<0, 0>>]
Some(o, w) == [some |-> TRUE, at |-> <<o, w>>]

\* no tree was given, no call was made
NoFocus == [root |-> <<>>, called |-> FALSE, result |-> None]

\* line 77-81: the index of the first focused Workspace from i on, 0 when
\* the loop ends without one
RECURSIVE FirstFocused(_, _)
FirstFocused(workspaces, i) ==
    IF i > Len(workspaces) THEN 0
    ELSE IF workspaces[i].is_focused THEN i
    ELSE FirstFocused(workspaces, i + 1)

\* line 75-84: the loop over the Outputs from o on
RECURSIVE get_focused_workspace_from(_, _)
get_focused_workspace_from(root, o) ==
    IF o > Len(root) THEN None
    ELSE IF root[o].is_focused /\ FirstFocused(root[o].children, 1) # 0
        THEN Some(o, FirstFocused(root[o].children, 1))
    ELSE get_focused_workspace_from(root, o + 1)

\* get_focused_workspace that stops at the first focused Output, with or
\* without a focused Workspace
get_focused_workspace_one_output(root) ==
    LET focused == {o \in 1..Len(root) : root[o].is_focused} IN
    IF focused = {} THEN None
    ELSE LET o == CHOOSE x \in focused : \A y \in focused : x <= y
             w == FirstFocused(root[o].children, 1)
         IN  IF w = 0 THEN None ELSE Some(o, w)

get_focused_workspace(root) == get_focused_workspace_from(root, 1)

\* the call on the tree given
GetFocusedWorkspace ==
    /\ ~focus.called
    /\ focus' = [focus EXCEPT !.called = TRUE,
                              !.result = get_focused_workspace(focus.root)]
    /\ UNCHANGED <<ctype, parent, children, held, used, call, walk, visible, is_focused>>
    /\ UNCHANGED <<wmVars, libVars>>

(***************************************************************************)
(* The registry of registry/mod.rs.                                        *)
(***************************************************************************)
\* the keys, the access flags and the values that the callers use; a value
\* is <<type, content>>
Keys == {"k1", "k2"}
AccessFlags == SUBSET {"READ", "WRITE"}
Types == {"bool", "u64"}
Values == {<<"bool", TRUE>>, <<"bool", FALSE>>, <<"u64", 42>>}

\* HashMap::new()
EmptyMap == [k \in {} |-> {}]
\* HashMap::insert: the entry of key is added or replaced
Insert(map, key, value) ==
    [k \in DOMAIN map \cup {key} |-> IF k = key THEN value ELSE map[k]]

\* ToTable::to_table and FromTable::from_lua_table of the convert module:
\* the Lua value of a Rust value, and the Rust value of type T that a Lua
\* value decodes to, if it decodes to one
to_table(val) == [lua |-> val[1], data |-> val[2]]
from_lua_table(T, lua_value) ==
    IF lua_value.lua = T
    THEN [res |-> "Ok", val |-> <<lua_value.lua, lua_value.data>>]
    ELSE [res |-> "Err", val |-> <<>>]

\* RegistryValue::new(flags, val), with its accessors flags() and get_lua()
RegistryValue(flags, val) == [flags |-> flags, object |-> to_table(val)]

\* set that leaves the entry of a key that is already there as it is
set_if_absent(reg, key, flags, val) ==
    IF key \in DOMAIN reg THEN reg ELSE Insert(reg, key, RegistryValue(flags, val))

\* line 75-80
set(reg, key, flags, val) == Insert(reg, key, RegistryValue(flags, val))

\* line 49-54
get_lua(reg, name) ==
    IF name \in DOMAIN reg
    THEN [some |-> TRUE, flags |-> reg[name].flags, lua |-> reg[name].object]
    ELSE [some |-> FALSE, flags |-> {}, lua |-> <<>>]

\* line 58-72: get::<K, T>(name)
get(reg, name, T) ==
    LET maybe_lua == get_lua(reg, name) IN
    IF maybe_lua.some
    THEN LET decoded == from_lua_table(T, maybe_lua.lua) IN
         IF decoded.res = "Ok"
         THEN [res |-> "Ok", flags |-> maybe_lua.flags, val |-> decoded.val]
         ELSE [res |-> "InvalidLua", flags |-> {}, val |-> <<>>]
    ELSE [res |-> "KeyNotFound", flags |-> {}, val |-> <<>>]

\* line 83-88
contains_key(reg, key) == key \in DOMAIN reg

\* no get or contains_key call was made
NoRegCall == [op |-> "none", key |-> "none", type |-> "none",
              result |-> [res |-> "none", flags |-> {}, val |-> <<>>]]

\* a set call: the write lock is held for the insert; regLog.set keeps what
\* was passed, and whether the key had been set before
Set(key, flags, val) ==
    /\ REGISTRY' = set(REGISTRY, key, flags, val)
    /\ regLog' = [regLog EXCEPT !.set = Insert(@, key,
                      [flags |-> flags, val |-> val, again |-> key \in DOMAIN @])]
    /\ UNCHANGED <<treeVars, wmVars, luaVars, stride>>

\* a get call, under the read lock
Get(name, T) ==
    /\ regLog' = [regLog EXCEPT !.call =
                      [op |-> "get", key |-> name, type |-> T,
                       result |-> get(REGISTRY, name, T)]]
    /\ UNCHANGED <<REGISTRY, treeVars, wmVars, luaVars, stride>>

\* a contains_key call, under the read lock
ContainsKey(key) ==
    /\ regLog' = [regLog EXCEPT !.call =
                      [op |-> "contains_key", key |-> key, type |-> "none",
                       result |-> [res |-> IF contains_key(REGISTRY, key)
                                           THEN "true" ELSE "false",
                                   flags |-> {}, val |-> <<>>]]]
    /\ UNCHANGED <<REGISTRY, treeVars, wmVars, luaVars, stride>>

InitRegistry ==
    /\ REGISTRY = EmptyMap
    /\ regLog = [set |-> EmptyMap, call |-> NoRegCall]

(***************************************************************************)
(* The Lua thread of lua/thread.rs.                                        *)
(***************************************************************************)
\* number of send calls in one run
MaxSends == 2
Sends == 1..MaxSends
\* enum LuaQuery, with Execute for the queries that run Lua code and answer
\* Pong or Error
LuaQuery == {"Terminate", "Restart", "Execute", "Ping"}

\* a send call that has not begun
NoSend == [pc |-> "idle", query |-> "none", late |-> FALSE, ret |-> "none",
           responses |-> <<>>, disconnected |-> FALSE]

\* init: where the call is; receiver: the Receiver of line 102, in the frame
\* of init and then in the thread; pc, message: the Lua thread; handled: the
\* send calls whose message the thread has handled; stopped: a Terminate or
\* a Restart was handled; after: the calls handled once stopped
NoThreadYet == [init |-> "none", receiver |-> "none", pc |-> "none", message |-> 0,
                handled |-> {}, stopped |-> FALSE, after |-> {}]

\* line 52-54
thread_running(running) == running

\* init that does not store the sender
init_without_sender ==
    /\ luaThread.init = "none"
    /\ luaThread' = [luaThread EXCEPT !.init = "lua", !.receiver = "alive"]
    /\ UNCHANGED <<SENDER, RUNNING, channel, client>>
    /\ UNCHANGED <<treeVars, wmVars, registryVars, stride>>

\* init, line 102-103: the channel is created and its Sender is stored
init_sender ==
    /\ luaThread.init = "none"
    /\ SENDER' = "Some"
    /\ luaThread' = [luaThread EXCEPT !.init = "lua", !.receiver = "alive"]
    /\ UNCHANGED <<RUNNING, channel, client>>
    /\ UNCHANGED <<treeVars, wmVars, registryVars, stride>>

\* init, line 104-115: the Lua state is made and the init file is run; a
\* missing or failing init file panics, and the Receiver is dropped as the
\* frame unwinds
init_lua ==
    /\ luaThread.init = "lua"
    /\ \/ luaThread' = [luaThread EXCEPT !.init = "ready"]
       \/ luaThread' = [luaThread EXCEPT !.init = "panicked", !.receiver = "dropped"]
    /\ UNCHANGED <<SENDER, RUNNING, channel, client>>
    /\ UNCHANGED <<treeVars, wmVars, registryVars, stride>>

\* init, line 117
init_running ==
    /\ luaThread.init = "ready"
    /\ RUNNING' = TRUE
    /\ luaThread' = [luaThread EXCEPT !.init = "spawn"]
    /\ UNCHANGED <<SENDER, channel, client>>
    /\ UNCHANGED <<treeVars, wmVars, registryVars, stride>>

\* init, line 119-121: the thread starts in main_loop
init_spawn ==
    /\ luaThread.init = "spawn"
    /\ luaThread' = [luaThread EXCEPT !.init = "done", !.pc = "recv"]
    /\ UNCHANGED <<SENDER, RUNNING, channel, client>>
    /\ UNCHANGED <<treeVars, wmVars, registryVars, stride>>

\* send, line 73-75: thread_running() is read
send_running(i, query) ==
    /\ client[i].pc = "idle"
    /\ client' = [client EXCEPT ![i] =
            IF thread_running(RUNNING)
            THEN [@ EXCEPT !.pc = "lock", !.query = query, !.late = luaThread.stopped]
            ELSE [@ EXCEPT !.pc = "returned", !.query = query, !.late = luaThread.stopped,
                           !.ret = "ThreadClosed"]]
    /\ UNCHANGED <<SENDER, RUNNING, channel, luaThread>>
    /\ UNCHANGED <<treeVars, wmVars, registryVars, stride>>

\* send, line 76-89: the sender is cloned under the lock of SENDER
send_lock(i) ==
    /\ client[i].pc = "lock"
    /\ client' = [client EXCEPT ![i] =
            IF SENDER = "Some" THEN [@ EXCEPT !.pc = "send"]
            ELSE [@ EXCEPT !.pc = "returned", !.ret = "ThreadUninitialized"]]
    /\ UNCHANGED <<SENDER, RUNNING, channel, luaThread>>
    /\ UNCHANGED <<treeVars, wmVars, registryVars, stride>>

\* send, line 91-96: the message goes on the channel with the Sender of a
\* new response channel, unless the Receiver is gone
send_message(i) ==
    /\ client[i].pc = "send"
    /\ IF luaThread.receiver = "alive"
       THEN /\ channel' = Append(channel, [reply |-> i, query |-> client[i].query])
            /\ client' = [client EXCEPT ![i].pc = "returned", ![i].ret = "Ok"]
       ELSE /\ client' = [client EXCEPT ![i].pc = "returned", ![i].ret = "Sender"]
            /\ UNCHANGED channel
    /\ UNCHANGED <<SENDER, RUNNING, luaThread>>
    /\ UNCHANGED <<treeVars, wmVars, registryVars, stride>>

\* main_loop, line 133-145: recv() blocks until a message is there.  SENDER
\* keeps a Sender of the channel for ever, so recv() never fails.
main_loop ==
    /\ luaThread.pc = "recv"
    /\ channel # <<>>
    /\ luaThread' = [luaThread EXCEPT !.pc = "handle", !.message = Head(channel)]
    /\ channel' = Tail(channel)
    /\ UNCHANGED <<SENDER, RUNNING, client>>
    /\ UNCHANGED <<treeVars, wmVars, registryVars, stride>>

\* line 223-235: the response goes to the receiver of the call
thread_send(cl, sender, response) ==
    [cl EXCEPT ![sender].responses = Append(@, response)]

\* the messages of a channel whose Receiver is dropped are dropped, and with
\* them the Senders of their response channels
Disconnect(cl, messages) ==
    [i \in Sends |->
        IF \E m \in 1..Len(messages) : messages[m].reply = i
        THEN [cl[i] EXCEPT !.disconnected = TRUE] ELSE cl[i]]

\* the thread has handled its message
Handled == [luaThread EXCEPT !.pc = "recv",
                             !.handled = @ \cup {luaThread.message.reply},
                             !.after = IF luaThread.stopped
                                       THEN @ \cup {luaThread.message.reply} ELSE @]

\* thread_handle_message, line 151-221
thread_handle_message ==
    /\ luaThread.pc = "handle"
    /\ LET request == luaThread.message IN
       CASE request.query = "Terminate" ->
                \* line 153-160: the handler returns, to the loop of main_loop
                /\ RUNNING' = FALSE
                /\ client' = thread_send(client, request.reply, "Pong")
                /\ luaThread' = [Handled EXCEPT !.stopped = TRUE]
                /\ UNCHANGED channel
         [] request.query = "Restart" ->
                \* line 162-170: the thread panics and drops the Receiver
                /\ RUNNING' = FALSE
                /\ client' = Disconnect(thread_send(client, request.reply, "Pong"),
                                        channel)
                /\ luaThread' = [Handled EXCEPT !.pc = "panicked",
                                                 !.receiver = "dropped",
                                                 !.stopped = TRUE]
                /\ channel' = <<>>
         [] request.query = "Execute" ->
                \* line 172-185
                /\ \E response \in {"Pong", "Error"} :
                        client' = thread_send(client, request.reply, response)
                /\ luaThread' = Handled
                /\ UNCHANGED <<RUNNING, channel>>
         [] request.query = "Ping" ->
                \* line 217-219
                /\ client' = thread_send(client, request.reply, "Pong")
                /\ luaThread' = Handled
                /\ UNCHANGED <<RUNNING, channel>>
    /\ UNCHANGED SENDER
    /\ UNCHANGED <<treeVars, wmVars, registryVars, stride>>

\* lazy_static, line 23-29
InitLua ==
    /\ SENDER = "None"
    /\ RUNNING = FALSE
    /\ channel = <<>>
    /\ luaThread = NoThreadYet
    /\ client = [i \in Sends |-> NoSend]

(***************************************************************************)
(* calculate_stride of layout/core/border/border.rs.                       *)
(***************************************************************************)
\* the widths up to MaxWidth are tried, with those of the test table and
\* the first ones whose 32 * width does not fit a u32
MaxWidth == 64
\* 2^27: 32 * width fits a u32 for the widths below it
Overflows == 134217728
Widths == (0..MaxWidth) \cup {100 * k : k \in 1..9}
              \cup {Overflows - 1, Overflows, Overflows + 1}

\* x & !4 on a u32: bit 2 of x is cleared
AndNot4(x) == x - ((x \div 4) % 2) * 4

\* (32 * width + 7) / 8 on a u32 that wraps: 32 * width mod 2^32 is
\* 32 * (width mod 2^27), and a multiple of 32 plus 7, divided by 8, is the
\* multiple divided by 8
Bytes(width) == 4 * (width % Overflows)

\* line 276-280: (32 * width + 7) / 8 + 4 & !4, where + binds tighter than &.
\* A product that does not fit a u32 panics in a build with overflow checks
\* and wraps in one without.
calculate_stride(width) ==
    IF width < Overflows
    THEN {[res |-> "Ok", val |-> AndNot4(Bytes(width) + 4)]}
    ELSE {[res |-> "Panic", val |-> 0],
          [res |-> "Ok", val |-> AndNot4(Bytes(width) + 4)]}

\* no width was given, no call was made
NoStride == [width |-> 0, called |-> FALSE, result |-> [res |-> "none", val |-> 0]]

\* the call on the width given
CalculateStride ==
    /\ ~stride.called
    /\ \E r \in calculate_stride(stride.width) :
          stride' = [stride EXCEPT !.called = TRUE, !.result = r]
    /\ UNCHANGED <<treeVars, wmVars, registryVars, luaVars>>

InitTree ==
    /\ InitContainers
    /\ focus = NoFocus

\* lazy_static: ROOT is a new root Node, CURRENT_WORKSPACE is 0
InitWM ==
    /\ ROOT = <<>>
    /\ CURRENT_WORKSPACE = 0
    /\ mask = [v \in Views |-> 0]
    /\ rootLock = NoThread
    /\ cwLock = NoThread
    /\ poisoned = {}
    /\ pc = [t \in Threads |-> "idle"]
    /\ local = [t \in Threads |-> NoLocal]

\* lazy_static: the registry is empty, there is no sender and no Lua thread
InitLib ==
    /\ InitRegistry
    /\ InitLua
    /\ stride = NoStride

Init == InitTree /\ InitWM /\ InitLib

\* the constructors and the removals; remove_child_at is called with every
\* index of the Vec and with its length, the first index out of its range
Next ==
    \/ NewRoot
    \/ \E p \in Live : NewOutput(p)
    \/ \E p \in Live : NewWorkspace(p)
    \/ \E p \in Live : NewContainer(p)
    \/ \E p \in Live : NewView(p)
    \/ \E s \in Live : RemoveContainer(s)
    \/ \E s \in Live : \E c \in Live : RemoveChild(s, c)
    \/ \E s \in Live : \E i \in 0..Len(children[s]) : RemoveChildAt(s, i)

Spec == Init /\ [][Next]_vars

\* ... and the direct calls of add_child and add_sibling
NextAdd ==
    \/ Next
    \/ \E s \in Live : \E c \in Live : AddChild(s, c)
    \/ \E s \in Live : \E c \in Live : AddSibling(s, c)

SpecAdd == Init /\ [][NextAdd]_vars

\* the constructors and the removals, then the add_child and add_sibling
\* calls that name a View as the node to extend: add_child on a View, and
\* add_sibling on a node whose parent reference resolves to a View
NextView ==
    \/ used.adds = 0 /\ Next
    \/ \E s \in Live : \E c \in Live :
          ctype[s] = View /\ AddChild(s, c)
    \/ \E s \in Live : \E c \in Live :
          /\ get_parent(ctype, parent, s) # NoNode
          /\ ctype[get_parent(ctype, parent, s)] = View
          /\ AddSibling(s, c)

SpecView == Init /\ [][NextView]_vars

\* the constructors and the removals, then the ancestry queries
NextQuery ==
    \/ Next
    \/ \E s \in Live : \E c \in Live : is_parent_of(s, c)
    \/ \E s \in Live : \E c \in Live : is_child_of(s, c)
    \/ is_parent_of_while

\* a call that is running goes on running
SpecQuery == Init /\ [][NextQuery]_vars /\ WF_vars(is_parent_of_while)

\* the constructors and the removals, then get_parent_by_type
NextWalk ==
    \/ walk = NoWalk /\ Next
    \/ \E s \in Live : \E t \in ContainerType : GetParentByType(s, t)

SpecWalk == Init /\ [][NextWalk]_vars

\* the constructors and the removals, then the set_visibility calls
NextVisible ==
    \/ (\A n \in Nodes : ~visible[n]) /\ Next
    \/ \E s \in Live : \E v \in BOOLEAN : SetVisibility(s, v)

SpecVisible == Init /\ [][NextVisible]_vars

\* calculate_stride on every width
InitStride ==
    /\ InitTree
    /\ InitWM
    /\ InitRegistry
    /\ InitLua
    /\ stride \in {[width |-> w, called |-> FALSE, result |-> NoStride.result] :
                       w \in Widths}

NextStride == CalculateStride

SpecStride == InitStride /\ [][NextStride]_vars

\* init, the Lua thread and the callers of send; init is called once, at
\* startup, and a send call i + 1 begins after send call i has begun
NextLua ==
    \/ init_sender
    \/ init_lua
    \/ init_running
    \/ init_spawn
    \/ \E i \in Sends : \E q \in LuaQuery :
          (\A j \in Sends : j < i => client[j].pc # "idle") /\ send_running(i, q)
    \/ \E i \in Sends : send_lock(i)
    \/ \E i \in Sends : send_message(i)
    \/ main_loop
    \/ thread_handle_message

\* init, the callers inside send and the Lua thread run on
SpecLua ==
    /\ Init /\ [][NextLua]_vars
    /\ WF_vars(init_lua \/ init_running \/ init_spawn)
    /\ WF_vars(\E i \in Sends : send_lock(i) \/ send_message(i))
    /\ WF_vars(main_loop)
    /\ WF_vars(thread_handle_message)

\* the registry under its callers
NextRegistry ==
    \/ \E k \in Keys : \E f \in AccessFlags : \E v \in Values : Set(k, f, v)
    \/ \E k \in Keys : \E T \in Types : Get(k, T)
    \/ \E k \in Keys : ContainsKey(k)

SpecRegistry == Init /\ [][NextRegistry]_vars

\* get_focused_workspace on every tree of Outputs and Workspaces, focused or
\* not
InitFocus ==
    /\ InitContainers
    /\ focus \in {[root |-> r, called |-> FALSE, result |-> None] : r \in FocusRoots}
    /\ InitWM
    /\ InitLib

NextFocus == GetFocusedWorkspace

SpecFocus == InitFocus /\ [][NextFocus]_vars

\* the Workspace Manager under concurrent callers
NextWM ==
    \E t \in Threads :
        \/ \E o \in Outputs : add_output(t, o)
        \/ add_workspace_count(t)
        \/ add_workspace_insert(t)
        \/ \E v \in Views : add_view_lock_current(t, v)
        \/ add_view(t)
        \/ \E v \in Views : remove_view(t, v)
        \/ \E i \in Indices : switch_workspace_lock_current(t, i)
        \/ switch_workspace_hide(t)
        \/ switch_workspace_show(t)
        \/ switch_workspace(t)

SpecWM == Init /\ [][NextWM]_vars

\* the steps of a call of thread t that is under way
Continue(t) ==
    /\ pc[t] \notin {"idle", "panicked"}
    /\ \/ add_workspace_count(t)
       \/ add_workspace_insert(t)
       \/ add_view(t)
       \/ switch_workspace_hide(t)
       \/ switch_workspace_show(t)
       \/ switch_workspace(t)

\* the Workspace Manager under concurrent callers, with one Output and one
\* View of the compositor
NextLocks ==
    \E t \in Threads :
        \/ add_output(t, "o1")
        \/ add_workspace_count(t)
        \/ add_workspace_insert(t)
        \/ add_view_lock_current(t, "A")
        \/ add_view(t)
        \/ remove_view(t, "A")
        \/ \E i \in Indices : switch_workspace_lock_current(t, i)
        \/ switch_workspace_hide(t)
        \/ switch_workspace_show(t)
        \/ switch_workspace(t)

\* a thread that is in a call runs on, and a lock() that finds its mutex free
\* again and again gets it in the end
SpecLocks ==
    Init /\ [][NextLocks]_vars /\ \A t \in Threads : SF_vars(Continue(t))

(***************************************************************************)
(* Vocabulary of the properties.                                           *)
(***************************************************************************)

Count(seq, n) == Cardinality({i \in 1..Len(seq) : seq[i] = n})
Without(seq, n) == SelectSeq(seq, LAMBDA x : x # n)

\* the nodes reachable from the nodes of S along children vectors, S included
RECURSIVE Closure(_, _)
Closure(ch, S) ==
    LET T == S \cup UNION {Elems(ch[n]) : n \in S}
    IN  IF T = S THEN S ELSE Closure(ch, T)

\* n and everything below it
Subtree(ch, n) == Closure(ch, {n})
\* the nodes of the tree: what is reachable from a Root
InTree(ct, ch) == Closure(ch, {n \in Nodes : ct[n] = Root})

OnlyConstructors == used.adds = 0 /\ used.removes = 0

\* C1: after constructor calls only, every parent/child edge has a legal type
\* pairing: an Output only under Root, a Workspace only under an Output, a
\* Container only under a Container or a Workspace, a View never under Root.
C1_LegalEdges ==
    OnlyConstructors =>
        \A p \in Live : \A c \in Elems(children[p]) :
            /\ ctype[c] = Output => ctype[p] = Root
            /\ ctype[c] = Workspace => ctype[p] = Output
            /\ ctype[c] = Container => ctype[p] \in {Container, Workspace}
            /\ ctype[c] = View => ctype[p] # Root

\* C2: after constructor calls and removals, every non-Root node of the tree
\* occurs exactly once in the children of the node its parent reference
\* resolves to.
C2_ParentHasChild ==
    used.adds = 0 =>
        \A n \in InTree(ctype, children) :
            ~is_root(ctype, n) =>
                LET p == get_parent(ctype, parent, n) IN
                p # NoNode /\ Count(children[p], n) = 1

\* C3: a remove_container() that returns Ok on an attached node n, neither
\* Root nor Workspace, takes n out of its parent's children and leaves the
\* other children in place and in order.
C3_RemovesSelf ==
    [][\A n \in Live :
        LET p == get_parent(ctype, parent, n) IN
        ( /\ ctype[n] \notin {Root, Workspace}
          /\ p # NoNode
          /\ n \in Elems(children[p])
          /\ remove_container(ctype, parent, children, n).res = "Ok"
          /\ RemoveContainer(n) )
        => children'[p] = Without(children[p], n)]_vars

\* C4: after remove_container() succeeded on a Container or an Output, neither
\* the node nor any of its descendants is reachable from Root.
C4_CascadeDeletion ==
    [][\A n \in Live :
        ( /\ ctype[n] \in {Container, Output}
          /\ remove_container(ctype, parent, children, n).res = "Ok"
          /\ RemoveContainer(n) )
        => Subtree(children, n) \cap InTree(ctype', children') = {}]_vars

\* C9: new_view with a Container parent c appends the new View as the last
\* child of c's parent and leaves c's own children unchanged; new_view with
\* a Workspace parent w appends the new View as the last child of w.
C9_SiblingPromotion ==
    [][\A c \in Live :
        ( /\ HasFree
          /\ ctype'[NewId] = View
          /\ NewView(c) )
        => /\ ctype[c] = Container =>
                LET p == get_parent(ctype, parent, c) IN
                /\ children'[p] = Append(children[p], NewId)
                /\ children'[c] = children[c]
           /\ ctype[c] = Workspace =>
                children'[c] = Append(children[c], NewId)]_vars

\* C9 witness: a View created with a Container parent c sits last in the
\* children of c's parent, and c has no child.
C9_Witness ==
    \E v \in Live : \E c \in Live :
        /\ ctype[v] = View /\ ctype[c] = Container /\ parent[v] = c
        /\ children[c] = <<>>
        /\ LET p == get_parent(ctype, parent, c) IN
           /\ p # NoNode
           /\ Len(children[p]) >= 2
           /\ children[p][Len(children[p])] = v


\* C8: after any sequence of public tree mutations every node occurs in the
\* children vector of at most one node, and at most once in it.
C8_SingleOwner ==
    \A n \in Live :
        Cardinality({e \in Nodes \X (1..MaxNodes + MaxAdds) :
                        e[2] <= Len(children[e[1]]) /\ children[e[1]][e[2]] = n}) <= 1

\* the structurally illegal edges: a View or a Container directly under Root,
\* a Workspace under a Container, a Root as a child, an Output under a
\* node that is not Root
IllegalEdge(ptype, chtype) ==
    \/ ptype = Root /\ chtype \in {View, Container}
    \/ ptype = Container /\ chtype = Workspace
    \/ chtype = Root
    \/ chtype = Output /\ ptype # Root

\* C10: an add_child or an add_sibling that would create a structurally
\* illegal edge returns an error and leaves every children vector unchanged.
C10_IllegalEdgeRejected ==
    [][\A s \in Live : \A c \in Live :
        /\ ( /\ used.adds < MaxAdds
             /\ IllegalEdge(ctype[s], ctype[c])
             /\ AddChild(s, c) )
           => /\ add_child(ctype, children, s, c, {s}).res = "Err"
              /\ children' = children
        /\ ( /\ used.adds < MaxAdds
             /\ get_parent(ctype, parent, s) # NoNode
             /\ IllegalEdge(ctype[get_parent(ctype, parent, s)], ctype[c])
             /\ AddSibling(s, c) )
           => /\ add_sibling(ctype, parent, children, s, c).res = "Err"
              /\ children' = children]_vars


\* C5: when switch_workspace(t) completes for an existing index t, every View
\* under Workspace t has mask 1, every View under the Workspace that was
\* active before (when it is another one) has mask 0, and the active index
\* is t.
C5_SwitchMasks ==
    [][\A t \in Threads :
        (pc[t] = "sw_index" /\ switch_workspace(t))
        => LET target == local[t].arg
               old == CURRENT_WORKSPACE
           IN  /\ CURRENT_WORKSPACE' = target
               /\ \A v \in ViewsOf(ROOT', target) : mask'[v] = 1
               /\ old # target => \A v \in ViewsOf(ROOT', old) : mask'[v] = 0]_vars

\* C5 witness: Workspace 1 is active and shows a View, Workspace 0 was shown
\* before and its View is hidden again.
C5_Witness ==
    /\ HasWorkspace(ROOT, 1)
    /\ CURRENT_WORKSPACE = 1
    /\ \A t \in Threads : pc[t] = "idle"
    /\ \E v \in ViewsOf(ROOT, 0) : mask[v] = 0
    /\ \E v \in ViewsOf(ROOT, 1) : mask[v] = 1

\* a thread is between the first mask change and the return of
\* switch_workspace
MidSwitch(t) == pc[t] \in {"sw_show", "sw_index"}

\* C6: while a thread is inside switch_workspace with part of the masks and
\* the index changed, it holds both guards, so no other thread can hold the
\* tree lock or the index lock and observe the partial combination.
C6_SwitchAtomic ==
    \A t \in Threads : MidSwitch(t) => rootLock = t /\ cwLock = t

\* C6 witness: a switch has hidden a View of the old Workspace and not yet
\* written the index, while the other thread is inside a call that needs
\* ROOT.
C6_Witness ==
    \E t \in Threads : \E u \in Threads \ {t} :
        /\ pc[t] = "sw_show"
        /\ local[t].arg # CURRENT_WORKSPACE
        /\ ViewsOf(ROOT, CURRENT_WORKSPACE) # {}
        /\ pc[u] \in {"aw_count", "aw_insert"}

\* C7: when an add_output call completes, the Output it created has exactly
\* two Workspace children.
C7_TwoWorkspaces ==
    [][\A t \in Threads :
        ( /\ pc[t] = "aw_insert"
          /\ local[t].op = "add_output"
          /\ add_workspace_insert(t)
          /\ pc'[t] = "idle" )
        => \E o \in 1..Len(ROOT') :
              /\ ROOT'[o].handle = local[t].arg
              /\ Len(ROOT'[o].children) = 2]_vars

\* the Container table is as it was
SameTree == ctype' = ctype /\ parent' = parent /\ children' = children /\ held' = held

\* what a refused removal returns
Refused(r) == r.res = "Err" /\ r.refused /\ r.ch = children

\* C11: no generic removal removes a Root or a Workspace: remove_container on
\* a Root or a Workspace, remove_child with a Workspace argument and
\* remove_child_at at an index that holds a Workspace return an error, a
\* call that returns this error leaves the tree unchanged, and a Workspace
\* stays in the children of its Output as long as the Output exists.
C11_NoWorkspaceRemoval ==
    [][ /\ \A n \in Live :
            ctype[n] \in {Root, Workspace}
            => Refused(remove_container(ctype, parent, children, n))
        /\ \A s \in Live : \A c \in Live \ {s} :
            ctype[c] = Workspace
            => LET r == RemoveChildCall(s, c)
               IN  r.res = "Err" /\ r.ch = children
        /\ \A s \in Live : \A i \in 0..(MaxNodes - 1) :
            (i < Len(children[s]) /\ ctype[children[s][i + 1]] = Workspace)
            => Refused(remove_child_at(ctype, children, s, i))
        /\ used'.refused # used.refused => SameTree
        /\ \A o \in Live :
            (ctype[o] = Output /\ ctype'[o] = Output)
            => \A w \in Elems(children[o]) :
                  ctype[w] = Workspace => w \in Elems(children'[o]) ]_vars

\* C11 witness: a removal was refused, and a Workspace is still a child of
\* its Output in the tree.
C11_Witness ==
    /\ used.refused >= 1
    /\ \E o \in InTree(ctype, children) : \E w \in Elems(children[o]) :
          ctype[o] = Output /\ ctype[w] = Workspace

\* the nodes on the parent chain of n: its parent, the parent of that one, ...
RECURSIVE Chain(_, _, _)
Chain(ct, pa, n) ==
    LET p == get_parent(ct, pa, n)
    IN  IF p = NoNode THEN {} ELSE {p} \cup Chain(ct, pa, p)

Ancestor(s, c) ==
    IF is_root(ctype, s) \/ s \in Chain(ctype, parent, c) THEN "true" ELSE "false"

\* C12: for all nodes s and c of the tree, s.is_parent_of(c) is true when s is
\* Root or lies on the parent chain of c and false otherwise, and
\* c.is_child_of(s) is the same value: a call that has entered its loop
\* returns that value.
C12_IsParentOf ==
    \A s \in Nodes : \A c \in Nodes :
        ( /\ call.pc = "while" /\ call.self = s /\ call.child = c
          /\ {s, c} \subseteq InTree(ctype, children) )
        ~> ( /\ call.pc = "idle" /\ call.self = s /\ call.child = c
             /\ call.result = Ancestor(s, c) )

\* C13: is_parent_of terminates for every pair of nodes of the tree: a call
\* that is in its loop returns.
C13_Terminates ==
    ( /\ call.pc = "while"
      /\ {call.self, call.child} \subseteq InTree(ctype, children) )
    ~> (call.pc = "idle")

\* a removal takes p out of the children vector that held it
Detached(p) ==
    /\ children' # children
    /\ Occurs(children, p) /\ ~Occurs(children', p)

\* C14 as stated: once a removal has detached p, get_parent() on a node c
\* that resolved p as its parent returns None.
C14_OrphanGetsNone ==
    [][\A p \in Live :
        Detached(p) =>
            \A c \in Live :
                (get_parent(ctype, parent, c) = p /\ Alive(ctype', c))
                => get_parent(ctype', parent', c) = NoNode]_vars

\* C14 amended: once a removal has detached p, get_parent() on a node c that
\* resolved p as its parent returns None when no handle to p is left (p was
\* destroyed), and p while the client still holds a handle to p.
C14_OrphanGetsNoneOrHeld ==
    [][\A p \in Live :
        Detached(p) =>
            \A c \in Live :
                (get_parent(ctype, parent, c) = p /\ Alive(ctype', c))
                => /\ p \notin held' => get_parent(ctype', parent', c) = NoNode
                   /\ p \in held' => get_parent(ctype', parent', c) = p]_vars

\* C14 witness: the client holds a node whose parent was detached and
\* destroyed.
C14_Witness ==
    \E c \in held :
        /\ parent[c] # NoNode
        /\ ctype[parent[c]] = Dead
        /\ used.removes >= 1

\* a live node, not a Root, whose parent has been destroyed
Orphan(n) ==
    /\ Alive(ctype, n) /\ ~is_root(ctype, n)
    /\ parent[n] # NoNode /\ ~Alive(ctype, parent[n])

\* C15: on a non-Root node whose parent has been destroyed, add_sibling,
\* remove_container and is_parent_of with the node as candidate report an
\* error or a not-found result, and neither they nor new_view with the node
\* as parent abort.
C15_OrphanReportsError ==
    \A n \in Nodes :
        Orphan(n) =>
            /\ \A c \in Live :
                  add_sibling(ctype, parent, children, n, c).res = "Err"
            /\ remove_container(ctype, parent, children, n).res = "Err"
            /\ is_parent_of_pass(ctype, parent, n) \in {"true", "false"}
            /\ HasFree =>
                  new_view(Alloc(View), Downgrade(n), children, n, NewId).res # "Panic"

\* C16: add_sibling on a non-Root node returns what the add_child of its
\* resolved parent returns: an error when the parent rejects the node, and
\* Ok only when the node was appended to the children of the parent.
C16_AddSiblingResult ==
    [][\A s \in Live : \A c \in Live :
        LET p == get_parent(ctype, parent, s)
            r == add_sibling(ctype, parent, children, s, c)
        IN  ( /\ used.adds < MaxAdds
              /\ ~is_root(ctype, s)
              /\ p # NoNode
              /\ r.res # "Panic"
              /\ AddSibling(s, c) )
            => /\ r.res = add_child(ctype, children, p, c, {s, p}).res
               /\ r.res = "Ok" => children'[p] = Append(children[p], c)]_vars

\* C17: switch_workspace is all-or-nothing: a call that ends without writing
\* the index, whatever its argument, leaves the masks as they were when it
\* began; it never ends with
\* views of the old Workspace hidden and the index still naming that
\* Workspace.
C17_AllOrNothing ==
    [][\A t \in Threads :
        ( /\ local[t].op = "switch_workspace"
          /\ pc'[t] \in {"idle", "panicked"}
          /\ CURRENT_WORKSPACE' # local[t].arg )
        => mask' = local[t].before]_vars

\* C18: switch_workspace(i) called again right after switch_workspace(i),
\* that is with i active and the Views of Workspace i shown, leaves every
\* mask and the index as they were; and switch_workspace(i) with i already
\* active leaves every View of Workspace i with mask 1.
C18_SwitchIdempotent ==
    [][\A t \in Threads :
        ( /\ pc[t] = "sw_index"
          /\ local[t].arg = CURRENT_WORKSPACE
          /\ switch_workspace(t) )
        => /\ \A v \in ViewsOf(ROOT', local[t].arg) : mask'[v] = 1
           /\ (\A v \in ViewsOf(ROOT', local[t].arg) : local[t].before[v] = 1)
              => /\ mask' = local[t].before
                 /\ CURRENT_WORKSPACE' = CURRENT_WORKSPACE]_vars

\* C18 witness: a switch to the active Workspace, whose View was shown when
\* the call began, has hidden and shown it again and is about to return.
C18_Witness ==
    \E t \in Threads :
        /\ pc[t] = "sw_index"
        /\ local[t].arg = CURRENT_WORKSPACE
        /\ \E v \in ViewsOf(ROOT, CURRENT_WORKSPACE) :
              local[t].before[v] = 1 /\ mask[v] = 1

\* a step in which thread t comes to hold both guards
TakesBoth(t) ==
    /\ rootLock' = t /\ cwLock' = t
    /\ ~(rootLock = t /\ cwLock = t)

\* C19 as stated: an operation that holds both the tree lock and the
\* active-index lock acquired the tree lock first.
C19_TreeBeforeIndex ==
    [][\A t \in Threads : TakesBoth(t) => rootLock = t]_vars

\* C19 amended: an operation that holds both locks acquired the active-index
\* lock first and the tree lock second: between its two acquisitions it
\* holds the index lock alone, and no operation that holds the tree lock
\* acquires the index lock.
C19_IndexBeforeTree ==
    [][\A t \in Threads :
        /\ pc'[t] \in {"sw_root", "av_root"} => cwLock' = t /\ rootLock' # t
        /\ TakesBoth(t) => cwLock = t
        /\ (rootLock = t /\ cwLock # t) => cwLock' # t]_vars

\* C19 witness: a thread inside switch_workspace holds both guards.
C19_Witness ==
    \E t \in Threads :
        pc[t] = "sw_show" /\ rootLock = t /\ cwLock = t

\* C20: add_output and add_workspace work inside one critical section: a
\* thread that has inserted its Output and not yet both Workspaces, or has
\* read the count and not yet inserted its Workspace, holds the tree lock, so
\* no other operation runs in between or finds an Output without Workspace.
C20_OneCriticalSection ==
    \A t \in Threads :
        pc[t] \in {"aw_count", "aw_insert"} => rootLock = t

\* the places <<output, workspace>> of the Workspaces of r
Places(r) == {e \in (1..Len(r)) \X (1..MaxWorkspaces) : e[2] <= Len(r[e[1]].children)}

\* C21: when add_view(s) completes, a View with handle s is the last child of
\* the Workspace at the active index under the first Output, the children of
\* every other Workspace are as they were, and the active index is as it was,
\* at the start of the call too.
C21_AddViewLands ==
    [][\A t \in Threads :
        /\ (pc[t] = "av_root" /\ pc'[t] = "idle")
           => LET s == local[t].arg
                  w == ROOT'[1].children[CURRENT_WORKSPACE' + 1].children
              IN  /\ CURRENT_WORKSPACE' = CURRENT_WORKSPACE
                  /\ w # <<>> /\ w[Len(w)] = s
                  /\ Places(ROOT') = Places(ROOT)
                  /\ \A e \in Places(ROOT) :
                        e # <<1, CURRENT_WORKSPACE + 1>>
                        => ROOT'[e[1]].children[e[2]].children
                               = ROOT[e[1]].children[e[2]].children
        /\ pc[t] = "av_root" => CURRENT_WORKSPACE' = CURRENT_WORKSPACE]_vars

\* C21 witness: with index 1 active, an add_view has returned and its View is
\* the last child of Workspace 1 of the first Output, after another View.
C21_Witness ==
    /\ CURRENT_WORKSPACE = 1
    /\ HasWorkspace(ROOT, 1)
    /\ \A t \in Threads : pc[t] = "idle"
    /\ Len(ROOT[1].children[2].children) = 2

\* thread t can make a call that locks ROOT, and the lock is sound
CanLockRoot(t) == pc[t] = "idle" /\ rootLock = NoThread /\ "ROOT" \notin poisoned

Holders(r, v) == {<<e[1], e[2]>> : e \in find_view_by_handle(r, v)}

C24_AddChild ==
    \A s \in Live : \A c \in Live :
        LET r == add_child(ctype, children, s, c, {s}) IN
        IF ctype[s] = View \/ (ctype[s] = Workspace /\ ctype[c] = Workspace)
        THEN r.res = "Err" /\ r.ch = children
        ELSE r.res = "Ok" /\ r.ch = [children EXCEPT ![s] = Append(@, c)]

\* the indices of the children of s that have the type of node
SameType(s, node) == {i \in 1..Len(children[s]) : ctype[children[s][i]] = ctype[node]}

C26_RemoveChildAtTotal ==
    \A s \in Live : \A index \in 0..MaxNodes :
        LET r == remove_child_at(ctype, children, s, index) IN
        IF index < Len(children[s]) /\ ctype[children[s][index + 1]] # Workspace
        THEN /\ r.res = "Ok"
             /\ r.node = children[s][index + 1]
        ELSE /\ r.res = "Err"
             /\ r.ch = children

\* the nearest node of type t on the parent chain of s, NoNode when there is
\* none: the one that every other node of type t on the chain lies above
Nearest(s, t) ==
    LET cands == {a \in Chain(ctype, parent, s) : ctype[a] = t}
    IN  IF cands = {} THEN NoNode
        ELSE CHOOSE a \in cands : \A b \in cands \ {a} : b \in Chain(ctype, parent, a)

\* C27: get_parent_by_type(t) terminates on every node s and returns the
\* nearest proper ancestor of s of type t, None when no node on the
\* resolvable parent chain of s has type t, and never s itself.
C27_GetParentByType ==
    walk # NoWalk =>
        /\ walk.res = "Returns"
        /\ walk.node = Nearest(walk.self, walk.container_type)
        /\ walk.node # walk.self

\* C27 witness: a call has returned an ancestor that is not the parent of its
\* receiver.
C27_Witness ==
    /\ walk.res = "Returns"
    /\ walk.node # NoNode
    /\ walk.node # get_parent(ctype, parent, walk.self)

\* C28: a View never acquires children: after any sequence of constructor,
\* add_child, add_sibling and removal calls the children of every View are
\* empty, and get_children on a View returns None.
C28_ViewHasNoChildren ==
    \A n \in Live :
        ctype[n] = View =>
            /\ children[n] = <<>>
            /\ ~get_children(ctype, children, n).some

\* C28 witness: the client has called add_child or add_sibling with a View
\* as the node to extend, and the View in the tree has no child.
C28_Witness ==
    /\ used.adds >= 1
    /\ \E v \in InTree(ctype, children) :
          ctype[v] = View /\ children[v] = <<>>

\* the places <<output, workspace>> of the focused Workspaces of the focused
\* Outputs of root
FocusedPairs(root) ==
    {e \in (1..Len(root)) \X (1..MaxFocusWorkspaces) :
        /\ root[e[1]].is_focused
        /\ e[2] <= Len(root[e[1]].children)
        /\ root[e[1]].children[e[2]].is_focused}

\* e comes before f in child order
Before(e, f) == e[1] < f[1] \/ (e[1] = f[1] /\ e[2] <= f[2])

\* C29: get_focused_workspace returns Some(w) exactly for a focused Workspace
\* w of a focused Output, the first such pair in child order, also when an
\* earlier focused Output has no focused Workspace, and None when no focused
\* Output has a focused Workspace.
C29_FocusedWorkspace ==
    focus.called =>
        LET pairs == FocusedPairs(focus.root) IN
        /\ focus.result.some <=> pairs # {}
        /\ focus.result.some =>
              /\ focus.result.at \in pairs
              /\ \A f \in pairs : Before(focus.result.at, f)

\* C29 witness: the call returned a Workspace of the second Output, the first
\* Output being focused without a focused Workspace.
C29_Witness ==
    /\ focus.called
    /\ focus.result.some
    /\ focus.result.at[1] = 2
    /\ focus.root[1].is_focused
    /\ focus.root[1].children # <<>>

\* C30: add_workspace appends exactly one new Workspace to the children of the
\* first Output under Root and leaves the other Outputs as they are, and the
\* label of the new Workspace is the workspace count plus one, the count
\* being the number of Workspaces (taken before or after the insertion), not
\* the number of Outputs.
C30_WorkspaceLabel ==
    [][\A t \in Threads :
        ( /\ pc[t] = "aw_insert"
          /\ ROOT' # ROOT
          /\ add_workspace_insert(t) )
        => LET old == ROOT[1].children
               new == ROOT'[1].children
           IN  /\ Len(new) = Len(old) + 1
               /\ SubSeq(new, 1, Len(old)) = old
               /\ Len(ROOT') = Len(ROOT)
               /\ \A o \in 2..Len(ROOT) : ROOT'[o] = ROOT[o]
               /\ new[Len(new)].children = <<>>
               /\ new[Len(new)].name \in {WorkspaceCount + 1, WorkspaceCount + 2}]_vars

\* a call of thread t is under way
InCall(t) == pc[t] \notin {"idle", "panicked"}

Inactive(r, current) ==
    IF r = <<>> THEN {}
    ELSE UNION {ViewsOf(r, i) : i \in (0..(Len(r[1].children) - 1)) \ {current}}

\* C33: whenever the tree can be read (no switch_workspace call holds the
\* guard of ROOT between its mask writes and its index write), every View
\* under a Workspace of the first Output other than the active one has
\* visibility mask 0.
C33_OnlyActiveShows ==
    rootLock = NoThread => \A v \in Inactive(ROOT, CURRENT_WORKSPACE) : mask[v] = 0

\* C33 witness: a switch_workspace has returned, the active Workspace shows
\* a View and another Workspace of the first Output holds a hidden View.
C33_Witness ==
    /\ rootLock = NoThread
    /\ CURRENT_WORKSPACE # 0
    /\ HasWorkspace(ROOT, CURRENT_WORKSPACE)
    /\ \E v \in ViewsOf(ROOT, CURRENT_WORKSPACE) : mask[v] = 1
    /\ Inactive(ROOT, CURRENT_WORKSPACE) # {}

\* C34: the step that completes an add_output call leaves the active index
\* on an existing Workspace of the first Output, and no later step takes
\* that away: once the index designates an existing Workspace it does so in
\* every later state.
C34_IndexDesignatesWorkspace ==
    [][/\ (\E t \in Threads : local[t].op = "add_output" /\ pc'[t] = "idle")
            => HasWorkspace(ROOT', CURRENT_WORKSPACE')
       /\ HasWorkspace(ROOT, CURRENT_WORKSPACE)
            => HasWorkspace(ROOT', CURRENT_WORKSPACE')]_vars

\* C34 witness: after add_output and add_workspace, a switch_workspace has
\* moved the index to a Workspace created later than the first two.
C34_Witness ==
    /\ CURRENT_WORKSPACE = 2
    /\ HasWorkspace(ROOT, 2)
    /\ \A t \in Threads : pc[t] = "idle"

\* C35: set_visibility(v) on a container sets the container and everything
\* in it: after the call get_visibility() is v on the node and on every one
\* of its descendants.
C35_SetVisibilityCascades ==
    [][\A s \in Live : \A v \in BOOLEAN :
          SetVisibility(s, v) =>
              \A d \in Subtree(children', s) : get_visibility(visible', d) = v]_vars

\* the tree under root r as get_focused_workspace takes it: the Outputs with
\* their is_focused and, under each, the Workspaces with theirs
FocusTree(r) ==
    [o \in 1..Len(children[r]) |->
        [is_focused |-> is_focused[children[r][o]],
         children |-> [w \in 1..Len(children[children[r][o]]) |->
                          [is_focused |-> is_focused[children[children[r][o]][w]]]]]]

ExpectedGet(k, T) ==
    IF k \notin DOMAIN regLog.set
    THEN [res |-> "KeyNotFound", flags |-> {}, val |-> <<>>]
    ELSE [res |-> "Ok", flags |-> regLog.set[k].flags, val |-> regLog.set[k].val]

C40_StrideIsFourTimesWidth ==
    stride.called =>
        /\ stride.result.res = "Ok"
        /\ stride.result.val = 4 * stride.width

\* C37: every query for which send returned Ok is eventually received and
\* handled by the Lua thread and answered with one response on its receiver.
C37_EveryQueryAnswered ==
    \A i \in Sends :
        (client[i].ret = "Ok")
            ~> (i \in luaThread.handled /\ Len(client[i].responses) = 1)

\* C38: once a Terminate was handled its sender has the reply Pong,
\* thread_running() is false, every send that begins later returns
\* ThreadClosed, and the thread handles no further query.
C38_TerminateShutsDown ==
    luaThread.stopped =>
        /\ \A i \in luaThread.handled :
              client[i].query = "Terminate" => client[i].responses = <<"Pong">>
        /\ ~thread_running(RUNNING)
        /\ \A i \in Sends :
              client[i].late /\ client[i].pc = "returned" => client[i].ret = "ThreadClosed"
        /\ luaThread.after = {}

\* init has not reached line 117, where it sets RUNNING
BeforeRunning == luaThread.init \in {"none", "lua", "ready", "panicked"}

====
